---- MODULE Spec2Model ----
(***************************************************************************)
(* dose2gmsh: a 3ddose file is parsed into a DoseBlock (from_3d_dose) and  *)
(* serialized as a Gmsh msh file (write_gmsh) or a csv table (write_csv).  *)
(* One run of the converter is modelled: the six input lines are read one  *)
(* after the other, the output file is created, and every writeln! of the  *)
(* writers is one step on a buffered output stream.                        *)
(***************************************************************************)
EXTENDS Integers, Sequences, FiniteSets, TLC

VARIABLES pc,        \* position of the run
          input,     \* the lines of the input file consumed so far
          voxel_nums, \* (num_x, num_y, num_z) of the first line, a local of the parser
          xs, ys, zs, doses, uncerts,   \* the DoseBlock fields parsed so far
          outcome,   \* "running", "Ok", "Err" or "panic"
          msg,       \* the panic message, "" when there is none
          format,    \* "none", "gmsh" or "csv": the writer that was called
          created,   \* the output file has been created / truncated
          out,       \* the records handed to the BufWriter, in order
          flushed,   \* how many of them have reached the output file
          pending,   \* the value the writer is about to return
          i, j, k,   \* loop positions of the node loops and the centroid loops
          index,     \* loop position of the element loop and of write_elt_data
          x_nodes,   \* the RangeInclusive cursor of the element loop
          field      \* "dose" or "uncert": the block write_elt_data is writing

vars == <<pc, input, voxel_nums, xs, ys, zs, doses, uncerts, outcome, msg, format, created,
          out, flushed, pending, i, j, k, index, x_nodes, field>>

blockVars == <<voxel_nums, xs, ys, zs, doses, uncerts>>
outVars == <<format, created, out, flushed, pending>>
loopVars == <<i, j, k, index, x_nodes, field>>

\* Largest voxel count per axis that the first input line announces.
MaxN == 2
\* Number of records the BufWriter holds before it has to flush.
BufCap == 4

\* Longest input line considered: one token more than the largest dose line.
MaxTok == MaxN * MaxN * MaxN + 1

(***************************************************************************)
(* Input tokens and lines                                                  *)
(***************************************************************************)
\* A whitespace-separated token: a number, or text that is no number.
Tok(v) == [num |-> TRUE, val |-> v]
BadTok == [num |-> FALSE, val |-> 0]

\* A line of len numeric tokens start, start+step, ...
Ramp(len, start, step) == [n \in 1..len |-> Tok(start + step * (n - 1))]

\* The line with its last token replaced by text that is no number.
Spoil(line) == [n \in 1..Len(line) |-> IF n = Len(line) THEN BadTok ELSE line[n]]

\* Candidate first lines: every triple of counts, and malformed ones.
HeaderLines ==
    { <<Tok(a), Tok(b), Tok(c)>> : a \in 0..MaxN, b \in 0..MaxN, c \in 0..MaxN }
    \cup { <<>>, <<Tok(1), Tok(1)>>, <<Tok(1), Tok(1), Tok(1), Tok(1)>>,
           <<Tok(1), BadTok, Tok(1)>>, <<Tok(1), Tok(1), Tok(-1)>> }

\* Candidate float lines: every length up to MaxTok, all numeric or spoiled.
FloatLines(start, step) ==
    { Ramp(len, start, step) : len \in 0..MaxTok }
    \cup { Spoil(Ramp(len, start, step)) : len \in 1..MaxTok }

\* num.parse::<T>(): usize accepts the non-negative integers, f64 any number.
parse(T, tok) == IF T = "usize" THEN tok.num /\ tok.val >= 0 ELSE tok.num

\* parse_simple_line without the length assertion
parse_simple_line_unchecked(T, line, title, expect_len) ==
    IF \E n \in 1..Len(line) : ~parse(T, line[n])
    THEN [ok |-> FALSE, entries |-> <<>>, msg |-> title]
    ELSE [ok |-> TRUE, entries |-> [n \in 1..Len(line) |-> line[n].val], msg |-> ""]

\* parse_simple_line: every token is parsed (expect(title) on the first that
\* is no number), then the number of entries is asserted.
parse_simple_line(T, line, title, expect_len) ==
    IF \E n \in 1..Len(line) : ~parse(T, line[n])
    THEN [ok |-> FALSE, entries |-> <<>>, msg |-> title]
    ELSE IF Len(line) # expect_len
    THEN [ok |-> FALSE, entries |-> <<>>,
          msg |-> "assertion failed: entries.len() == expect_len"]
    ELSE [ok |-> TRUE, entries |-> [n \in 1..Len(line) |-> line[n].val], msg |-> ""]

(***************************************************************************)
(* DoseBlock queries                                                       *)
(***************************************************************************)
num_x == Len(xs) - 1
num_y == Len(ys) - 1
num_z == Len(zs) - 1
num_voxels == num_x * num_y * num_z
num_nodes == Len(xs) * Len(ys) * Len(zs)

grid_index_yfirst(a, b, c) == a + Len(ys) * b + Len(xs) * Len(ys) * c
grid_index(a, b, c) == a + Len(xs) * b + Len(xs) * Len(ys) * c

(***************************************************************************)
(* from_3d_dose                                                            *)
(***************************************************************************)
Init ==
    /\ pc = "open"
    /\ input = <<>>
    /\ voxel_nums = <<0, 0, 0>>
    /\ xs = <<>> /\ ys = <<>> /\ zs = <<>> /\ doses = <<>> /\ uncerts = <<>>
    /\ outcome = "running"
    /\ msg = ""
    /\ format = "none"
    /\ created = FALSE
    /\ out = <<>>
    /\ flushed = 0
    /\ pending = "Ok"
    /\ i = 0 /\ j = 0 /\ k = 0
    /\ index = 0
    /\ x_nodes = [start |-> 1, end |-> 0]
    /\ field = "dose"

Panic(m) ==
    /\ pc' = "panicked"
    /\ outcome' = "panic"
    /\ msg' = m

\* File::open(input_file)?
OpenInput ==
    /\ pc = "open"
    /\ \/ /\ pc' = "voxel_nums"
          /\ UNCHANGED outcome
       \/ /\ pc' = "done"
          /\ outcome' = "Err"
    /\ UNCHANGED <<msg, input, blockVars, outVars, loopVars>>

\* What lines.next() can give: the end of the input, a read error, or a line.
Fetch(lines) ==
    { [kind |-> "eof", line |-> <<>>], [kind |-> "ioerr", line |-> <<>>] }
    \cup { [kind |-> "line", line |-> l] : l \in lines }

\* lines.next().expect(what) followed by parse_simple_line::<T>(line, title, expect_len);
\* the lines iterator unwraps every read result.
ReadLine(got, what, T, title, expect_len) ==
    IF got.kind = "eof"
    THEN [ok |-> FALSE, entries |-> <<>>, msg |-> what]
    ELSE IF got.kind = "ioerr"
    THEN [ok |-> FALSE, entries |-> <<>>, msg |-> "called Result::unwrap on an Err value"]
    ELSE parse_simple_line(T, got.line, title, expect_len)

\* The effect of one read on the position, the outcome and the consumed input.
Advance(got, r, next) ==
    /\ input' = IF got.kind = "line" THEN Append(input, got.line) ELSE input
    /\ IF r.ok
       THEN pc' = next /\ UNCHANGED <<outcome, msg>>
       ELSE Panic(r.msg)

\* first line is number of x, y, z voxels
ReadVoxelNums ==
    /\ pc = "voxel_nums"
    /\ \E got \in Fetch(HeaderLines) :
         LET r == ReadLine(got, "voxel numbers", "usize", "voxel number", 3) IN
         /\ Advance(got, r, "xs")
         /\ voxel_nums' = IF r.ok THEN r.entries ELSE voxel_nums
    /\ UNCHANGED <<xs, ys, zs, doses, uncerts, outVars, loopVars>>

\* second line is x-coordinates
ReadXs ==
    /\ pc = "xs"
    /\ \E got \in Fetch(FloatLines(0, 2) \cup FloatLines(8, -2)) :
         LET r == ReadLine(got, "x-coordinates", "f64", "x-coordinate", voxel_nums[1] + 1) IN
         /\ Advance(got, r, "ys")
         /\ xs' = r.entries
    /\ UNCHANGED <<voxel_nums, ys, zs, doses, uncerts, outVars, loopVars>>

\* third is y-coordinates
ReadYs ==
    /\ pc = "ys"
    /\ \E got \in Fetch(FloatLines(10, 4)) :
         LET r == ReadLine(got, "y-coordinates", "f64", "y-coordinate", voxel_nums[2] + 1) IN
         /\ Advance(got, r, "zs")
         /\ ys' = r.entries
    /\ UNCHANGED <<voxel_nums, xs, zs, doses, uncerts, outVars, loopVars>>

\* fourth is z-coordinates
ReadZs ==
    /\ pc = "zs"
    /\ \E got \in Fetch(FloatLines(-20, 6)) :
         LET r == ReadLine(got, "z-coordinates", "f64", "z-coordinate", voxel_nums[3] + 1) IN
         /\ Advance(got, r, "doses")
         /\ zs' = r.entries
    /\ UNCHANGED <<voxel_nums, xs, ys, doses, uncerts, outVars, loopVars>>

\* let num_voxels = num_x * num_y * num_z
parsed_num_voxels == voxel_nums[1] * voxel_nums[2] * voxel_nums[3]

\* fifth is deposited dose
ReadDoses ==
    /\ pc = "doses"
    /\ \E got \in Fetch(FloatLines(100, 1)) :
         LET r == ReadLine(got, "doses", "f64", "dose value", parsed_num_voxels) IN
         /\ Advance(got, r, "uncerts")
         /\ doses' = r.entries
    /\ UNCHANGED <<voxel_nums, xs, ys, zs, uncerts, outVars, loopVars>>

\* sixth is uncertainty values; Ok(DoseBlock { .. }) follows
ReadUncerts ==
    /\ pc = "uncerts"
    /\ \E got \in Fetch(FloatLines(200, 1)) :
         LET r == ReadLine(got, "uncerts", "f64", "uncertainty value", parsed_num_voxels) IN
         /\ Advance(got, r, "parsed")
         /\ uncerts' = r.entries
    /\ UNCHANGED <<voxel_nums, xs, ys, zs, doses, outVars, loopVars>>

(***************************************************************************)
(* The output stream: BufWriter::new(File::create(output)?)                *)
(***************************************************************************)
\* One output record: a line (or the lines of one writeln!) of the file.
Rec(kind, id, v) == [kind |-> kind, id |-> id, v |-> v]

\* The writers run once the whole input has been parsed.
ReadyToWrite_early == pc \in {"uncerts", "parsed"}
ReadyToWrite == pc = "parsed"

\* File::create(output)?: the file is created or truncated, or the call fails.
CreateOutput(fmt, first) ==
    /\ ReadyToWrite
    /\ format' = fmt
    /\ \/ /\ created' = TRUE
          /\ pc' = first
          /\ UNCHANGED outcome
       \/ /\ pc' = "done"
          /\ outcome' = "Err"
          /\ UNCHANGED created
    /\ UNCHANGED <<msg, input, blockVars, out, flushed, pending, loopVars>>

\* writeln!(&mut filestream, ..)?: the record is buffered, after a flush of
\* the buffer when it is full; a failed flush has written only a part of the
\* buffer and returns Err to the caller.
Writeln(rec, then) ==
    \/ /\ Len(out) - flushed < BufCap
       /\ out' = Append(out, rec)
       /\ UNCHANGED <<flushed, pending>>
       /\ then
    \/ /\ Len(out) - flushed >= BufCap
       /\ flushed' = Len(out)
       /\ out' = Append(out, rec)
       /\ UNCHANGED pending
       /\ then
    \/ /\ Len(out) - flushed >= BufCap
       /\ \E n \in flushed..(Len(out) - 1) : flushed' = n
       /\ pending' = "Err"
       /\ pc' = "drop"
       /\ UNCHANGED <<out, loopVars>>

\* The writer returns and filestream goes out of scope: BufWriter's drop
\* flushes what is buffered and discards the result of that flush.
DropWriter ==
    /\ pc = "drop"
    /\ \/ flushed' = Len(out)
       \/ \E n \in flushed..(Len(out) - 1) : flushed' = n
    /\ outcome' = pending
    /\ pc' = "done"
    /\ UNCHANGED <<msg, input, blockVars, format, created, out, pending, loopVars>>

noWrite == <<msg, input, blockVars, format, created, outcome>>

(***************************************************************************)
(* write_gmsh                                                              *)
(***************************************************************************)
\* Advance the three nested loops (z outer, y middle, x inner) over lx, ly
\* and lz entries; after the last iteration the run goes on at next.
NextIter(lx, ly, lz, next) ==
    IF i + 1 < lx THEN /\ i' = i + 1 /\ UNCHANGED <<j, k, pc>>
    ELSE IF j + 1 < ly THEN /\ i' = 0 /\ j' = j + 1 /\ UNCHANGED <<k, pc>>
    ELSE IF k + 1 < lz THEN /\ i' = 0 /\ j' = 0 /\ k' = k + 1 /\ UNCHANGED pc
    ELSE /\ pc' = next /\ UNCHANGED <<i, j, k>>

WriteGmshCreate == CreateOutput("gmsh", "mesh_format")

\* gmsh header
WriteMeshFormat ==
    /\ pc = "mesh_format"
    /\ Writeln(Rec("MeshFormat", 0, <<>>),
               pc' = "nodes_header" /\ UNCHANGED loopVars)
    /\ UNCHANGED noWrite

\* "$Nodes\n{}\n" with num_nodes
WriteNodesHeader ==
    /\ pc = "nodes_header"
    /\ Writeln(Rec("Nodes", num_nodes, <<>>),
               /\ pc' = "nodes"
               /\ i' = 0 /\ j' = 0 /\ k' = 0
               /\ UNCHANGED <<index, x_nodes, field>>)
    /\ UNCHANGED noWrite

\* One line of the node block: gmsh expects 1-indexing.
node_record(a, b, c) ==
    Rec("node", grid_index(a, b, c) + 1, <<xs[a + 1], ys[b + 1], zs[c + 1]>>)

WriteNode ==
    /\ pc = "nodes"
    /\ Writeln(node_record(i, j, k),
               /\ NextIter(Len(xs), Len(ys), Len(zs), "end_nodes")
               /\ UNCHANGED <<index, x_nodes, field>>)
    /\ UNCHANGED noWrite

\* let mut x_nodes = 1..=self.num_nodes()
node_cursor_short == [start |-> 1, end |-> num_voxels]
node_cursor == [start |-> 1, end |-> num_nodes]

WriteEndNodes ==
    /\ pc = "end_nodes"
    /\ Writeln(Rec("EndNodes", 0, <<>>),
               /\ pc' = "elements_header"
               /\ x_nodes' = node_cursor
               /\ UNCHANGED <<i, j, k, index, field>>)
    /\ UNCHANGED noWrite

\* "$Elements\n{}" with num_voxels; for index in 0..self.num_voxels()
WriteElementsHeader ==
    /\ pc = "elements_header"
    /\ Writeln(Rec("Elements", num_voxels, <<>>),
               /\ pc' = IF 0 < num_voxels THEN "elements" ELSE "end_elements"
               /\ index' = 0
               /\ UNCHANGED <<i, j, k, x_nodes, field>>)
    /\ UNCHANGED noWrite

\* itertools dropping(n): the range is advanced by n, at most to its end.
dropping(r, n) ==
    [r EXCEPT !.start = IF r.start + n > r.end THEN r.end + 1 ELSE r.start + n]

\* skip rightmost node to start a new row
SkipRow(idx, r) ==
    IF idx # 0 /\ idx % num_x = 0 THEN dropping(r, 1) ELSE r

\* skip top row of nodes to move to the next x-y block
SkipPlane_num_x(idx, r) ==
    IF idx # 0 /\ idx % (num_x * num_y) = 0 THEN dropping(r, num_x) ELSE r
SkipPlane(idx, r) ==
    IF idx # 0 /\ idx % (num_x * num_y) = 0 THEN dropping(r, Len(xs)) ELSE r

gmsh_y_index(x_index) == x_index + Len(xs)
gmsh_z_index(x_index) == x_index + Len(xs) * Len(ys)

\* The eight corners of the element whose 0 node is xl, in gmsh order.
Corners(xl) ==
    LET xr == xl + 1
        yl == gmsh_y_index(xl)
        yr == yl + 1
        zl == gmsh_z_index(xl)
        zr == zl + 1
        yzl == gmsh_z_index(yl)
        yzr == yzl + 1
    IN  <<xl, xr, yr, yl, zl, zr, yzr, yzl>>

\* One iteration of the element loop: the two skips, x_nodes.next().unwrap(),
\* and the element line.
WriteElement ==
    /\ pc = "elements"
    /\ LET r == SkipPlane(index, SkipRow(index, x_nodes)) IN
       IF r.start > r.end
       THEN /\ Panic("called Option::unwrap on a None value")
            /\ UNCHANGED <<input, blockVars, outVars, loopVars>>
       ELSE /\ Writeln(Rec("elt", index + 1, Corners(r.start)),
                       /\ x_nodes' = [r EXCEPT !.start = r.start + 1]
                       /\ index' = index + 1
                       /\ pc' = IF index + 1 < num_voxels THEN "elements"
                                                         ELSE "end_elements"
                       /\ UNCHANGED <<i, j, k, field>>)
            /\ UNCHANGED noWrite

WriteEndElements ==
    /\ pc = "end_elements"
    /\ Writeln(Rec("EndElements", 0, <<>>),
               /\ pc' = "data_begin"
               /\ field' = "dose"
               /\ UNCHANGED <<i, j, k, index, x_nodes>>)
    /\ UNCHANGED noWrite

\* write_elt_data(name, data): data is self.doses, then self.uncerts
data == IF field = "dose" THEN doses ELSE uncerts

WriteDataBegin ==
    /\ pc = "data_begin"
    /\ Writeln(Rec("ElementData", 0, <<>>),
               pc' = "data_name" /\ UNCHANGED loopVars)
    /\ UNCHANGED noWrite

\* one string - the field name
WriteDataName ==
    /\ pc = "data_name"
    /\ Writeln(Rec(IF field = "dose" THEN "name Dose" ELSE "name Uncertainty fraction",
                   0, <<>>),
               pc' = "data_time" /\ UNCHANGED loopVars)
    /\ UNCHANGED noWrite

\* one real value - the time
WriteDataTime ==
    /\ pc = "data_time"
    /\ Writeln(Rec("time", 0, <<>>),
               pc' = "data_tags" /\ UNCHANGED loopVars)
    /\ UNCHANGED noWrite

\* three int tags: timestep 0, 1-component field, num_elt values
WriteDataTags ==
    /\ pc = "data_tags"
    /\ Writeln(Rec("tags", Len(data), <<>>),
               /\ pc' = IF 0 < Len(data) THEN "data_vals" ELSE "data_end"
               /\ index' = 0
               /\ UNCHANGED <<i, j, k, x_nodes, field>>)
    /\ UNCHANGED noWrite

\* for (index, val) in data.iter().enumerate(): "{} {}", index + 1, val
elt_data_record_0(idx, values) == Rec("val", idx, <<values[idx + 1]>>)
elt_data_record(idx, values) == Rec("val", idx + 1, <<values[idx + 1]>>)

WriteDataVal ==
    /\ pc = "data_vals"
    /\ Writeln(elt_data_record(index, data),
               /\ index' = index + 1
               /\ pc' = IF index + 1 < Len(data) THEN "data_vals" ELSE "data_end"
               /\ UNCHANGED <<i, j, k, x_nodes, field>>)
    /\ UNCHANGED noWrite

\* $EndElementData; the second block's result is the result of write_gmsh
WriteDataEnd ==
    /\ pc = "data_end"
    /\ Writeln(Rec("EndElementData", 0, <<>>),
               /\ IF field = "dose"
                  THEN pc' = "data_begin" /\ field' = "uncert"
                  ELSE pc' = "drop" /\ UNCHANGED field
               /\ UNCHANGED <<i, j, k, index, x_nodes>>)
    /\ UNCHANGED noWrite

(***************************************************************************)
(* write_csv                                                               *)
(***************************************************************************)
calc_centroids(pts) == [n \in 1..(Len(pts) - 1) |-> (pts[n] + pts[n + 1]) \div 2]

voxel_idx_num_y(a, b, c) == a + num_y * b + num_x * num_y * c
voxel_idx(a, b, c) == a + num_x * b + num_x * num_y * c

WriteCsvCreate == CreateOutput("csv", "csv_header")

\* The header row; the three nested loops write nothing when an axis has
\* no centroid.
WriteCsvHeader ==
    /\ pc = "csv_header"
    /\ Writeln(Rec("csv_header", 0, <<>>),
               /\ pc' = IF 0 < num_voxels THEN "csv_rows" ELSE "drop"
               /\ i' = 0 /\ j' = 0 /\ k' = 0
               /\ UNCHANGED <<index, x_nodes, field>>)
    /\ UNCHANGED noWrite

\* One data row: the centroid, then self.doses[..] and self.uncerts[..],
\* both indexed with a bounds check.
WriteCsvRow ==
    /\ pc = "csv_rows"
    /\ LET idx == voxel_idx(i, j, k) IN
       IF idx >= Len(doses) \/ idx >= Len(uncerts)
       THEN /\ Panic("index out of bounds")
            /\ UNCHANGED <<input, blockVars, outVars, loopVars>>
       ELSE /\ Writeln(Rec("row", 0, <<calc_centroids(xs)[i + 1], calc_centroids(ys)[j + 1],
                                       calc_centroids(zs)[k + 1],
                                       doses[idx + 1], uncerts[idx + 1]>>),
                       /\ NextIter(num_x, num_y, num_z, "drop")
                       /\ UNCHANGED <<index, x_nodes, field>>)
            /\ UNCHANGED noWrite

(***************************************************************************)
(* The run                                                                 *)
(***************************************************************************)
Next ==
    \/ OpenInput
    \/ ReadVoxelNums
    \/ ReadXs
    \/ ReadYs
    \/ ReadZs
    \/ ReadDoses
    \/ ReadUncerts
    \/ WriteGmshCreate
    \/ WriteMeshFormat
    \/ WriteNodesHeader
    \/ WriteNode
    \/ WriteEndNodes
    \/ WriteElementsHeader
    \/ WriteElement
    \/ WriteEndElements
    \/ WriteDataBegin
    \/ WriteDataName
    \/ WriteDataTime
    \/ WriteDataTags
    \/ WriteDataVal
    \/ WriteDataEnd
    \/ WriteCsvCreate
    \/ WriteCsvHeader
    \/ WriteCsvRow
    \/ DropWriter

Spec == Init /\ [][Next]_vars

(***************************************************************************)
(* Properties                                                              *)
(***************************************************************************)
\* from_3d_dose has returned Ok(DoseBlock): the block is with the caller, or
\* a writer has been called on it.
DoseBlockReturned == pc = "parsed" \/ format # "none"

\* The voxel (a, b, c) whose voxel_index is e: x fastest, then y, then z.
VoxelI(e) == e % num_x
VoxelJ(e) == (e \div num_x) % num_y
VoxelK(e) == e \div (num_x * num_y)

\* The eight corner ids of voxel index e by the closed form, 1-indexed, in
\* the order (base, xr, yr, yl, zl, zr, yzr, yzl).
ClosedFormCorners(e) ==
    LET nx == num_x
        ny == num_y
        base == VoxelI(e) + (nx + 1) * VoxelJ(e) + (nx + 1) * (ny + 1) * VoxelK(e)
        xr == base + 1
        yl == base + (nx + 1)
        yr == yl + 1
        zl == base + (nx + 1) * (ny + 1)
        zr == zl + 1
        yzl == zl + (nx + 1)
        yzr == yzl + 1
    IN  <<base + 1, xr + 1, yr + 1, yl + 1, zl + 1, zr + 1, yzr + 1, yzl + 1>>

\* Positions in the msh output: the record before the first element line,
\* before the first dose value and before the first uncertainty value.
EltBase == 2 + num_nodes + 2
DoseBase == EltBase + num_voxels + 1 + 4
UncertBase == DoseBase + num_voxels + 1 + 4

\* C1: every element line the cursor-stepping loop writes carries, for its
\* element index, exactly the eight corner ids of the closed form; on the
\* 1x1x1 grid the corner list is 1,2,4,3,5,6,8,7.
C1_CursorMatchesClosedForm ==
    \A p \in 1..Len(out) :
        out[p].kind = "elt" =>
            /\ out[p].v = ClosedFormCorners(out[p].id - 1)
            /\ (num_x = 1 /\ num_y = 1 /\ num_z = 1) => out[p].v = <<1, 2, 4, 3, 5, 6, 8, 7>>

\* The whole element block of a grid with several rows and planes is written.
C1_Witness ==
    /\ pc = "end_elements"
    /\ num_x >= 2 /\ num_y >= 2 /\ num_z >= 2
    /\ out[Len(out)].kind = "elt"
    /\ out[Len(out)].id = num_voxels

\* C2: in the element loop the cursor always has an id to yield, also
\* after the row and plane skips, and the eight corner ids of every element
\* line are pairwise distinct and lie in 1..node_count.
C2_ElementEmissionCannotFail ==
    /\ msg # "called Option::unwrap on a None value"
    /\ pc = "elements" =>
          LET r == SkipPlane(index, SkipRow(index, x_nodes)) IN r.start <= r.end
    /\ \A p \in 1..Len(out) :
          out[p].kind = "elt" =>
              /\ \A n \in 1..8 : out[p].v[n] \in 1..num_nodes
              /\ \A n, m \in 1..8 : n # m => out[p].v[n] # out[p].v[m]

\* An element behind a plane skip has been written.
C2_Witness ==
    /\ pc \in {"elements", "end_elements"}
    /\ num_x >= 2 /\ num_y >= 2
    /\ index > num_x * num_y
    /\ out[Len(out)].kind = "elt"

\* C3: a returned DoseBlock has len(doses) = len(uncerts) = nx*ny*nz and
\* nx+1, ny+1, nz+1 coordinates, nx ny nz being the three integers of the
\* first line; the six lines read have exactly these token counts (any
\* other input has made construction fail).
C3_LengthsMatchHeader ==
    DoseBlockReturned =>
        /\ Len(input) = 6
        /\ Len(input[1]) = 3
        /\ LET nx == input[1][1].val
               ny == input[1][2].val
               nz == input[1][3].val
           IN  /\ Len(input[2]) = nx + 1 /\ Len(xs) = nx + 1
               /\ Len(input[3]) = ny + 1 /\ Len(ys) = ny + 1
               /\ Len(input[4]) = nz + 1 /\ Len(zs) = nz + 1
               /\ Len(input[5]) = nx * ny * nz
               /\ Len(input[6]) = nx * ny * nz
               /\ Len(doses) = nx * ny * nz
               /\ Len(uncerts) = Len(doses)
               /\ Len(doses) = (Len(xs) - 1) * (Len(ys) - 1) * (Len(zs) - 1)

\* A block of unequal axes with several voxels has been returned.
C3_Witness ==
    /\ pc = "parsed"
    /\ Len(doses) >= 4
    /\ Len(xs) # Len(ys)

\* C4: every returned DoseBlock has at least two coordinates, that is one
\* voxel, on each axis.
C4_AtLeastOneVoxelPerAxis ==
    DoseBlockReturned => Len(xs) >= 2 /\ Len(ys) >= 2 /\ Len(zs) >= 2

\* The token count from_3d_dose expects of the n-th line.
ExpectLen(n) ==
    CASE n = 1 -> 3
      [] n = 2 -> voxel_nums[1] + 1
      [] n = 3 -> voxel_nums[2] + 1
      [] n = 4 -> voxel_nums[3] + 1
      [] OTHER -> parsed_num_voxels

\* The title from_3d_dose gives parse_simple_line for the n-th line.
Title(n) ==
    CASE n = 1 -> "voxel number"
      [] n = 2 -> "x-coordinate"
      [] n = 3 -> "y-coordinate"
      [] n = 4 -> "z-coordinate"
      [] n = 5 -> "dose value"
      [] OTHER -> "uncertainty value"

\* C5: when the last line read has a token count other than the expected
\* one, the run has failed with a message that names the field of that line.
C5_WrongCountNamesField ==
    (/\ Len(input) >= 1
     /\ format = "none"
     /\ Len(input[Len(input)]) # ExpectLen(Len(input)))
        => /\ pc = "panicked"
           /\ msg = Title(Len(input))

\* The node triples of the block.
NodeTriples == (0..num_x) \X (0..num_y) \X (0..num_z)

\* C6: grid_index is a bijection from the node triples onto
\* 0..node_count-1 with x fastest, then y, then z, and node_count is
\* (nx+1)(ny+1)(nz+1); the node block lists the ids 1, 2, .. in ascending
\* contiguous order, node_count of them, the line with id
\* grid_index(a,b,c)+1 carrying (xs[a], ys[b], zs[c]).
C6_NodeIndexBijection ==
    /\ pc = "parsed" =>
          /\ num_nodes = Cardinality(NodeTriples)
          /\ \A t \in NodeTriples : grid_index(t[1], t[2], t[3]) \in 0..(num_nodes - 1)
          /\ \A t, u \in NodeTriples :
                grid_index(t[1], t[2], t[3]) = grid_index(u[1], u[2], u[3]) => t = u
          /\ \A t \in NodeTriples :
                /\ t[1] < num_x =>
                      grid_index(t[1] + 1, t[2], t[3]) = grid_index(t[1], t[2], t[3]) + 1
                /\ t[2] < num_y =>
                      grid_index(0, t[2] + 1, t[3]) = grid_index(num_x, t[2], t[3]) + 1
                /\ t[3] < num_z =>
                      grid_index(0, 0, t[3] + 1) = grid_index(num_x, num_y, t[3]) + 1
    /\ \A p \in 1..Len(out) :
          out[p].kind = "node" =>
              /\ out[p].id = p - 2
              /\ out[p].id \in 1..num_nodes
              /\ \E t \in NodeTriples :
                    /\ out[p].id = grid_index(t[1], t[2], t[3]) + 1
                    /\ out[p].v = <<xs[t[1] + 1], ys[t[2] + 1], zs[t[3] + 1]>>
    /\ pc = "end_nodes" =>
          /\ Len(out) = 2 + num_nodes
          /\ out[2] = Rec("Nodes", num_nodes, <<>>)
          /\ \A p \in 3..Len(out) : out[p].kind = "node"

\* The node block of a grid with unequal axes is complete.
C6_Witness ==
    /\ pc = "end_nodes"
    /\ num_x = 2 /\ num_y = 1 /\ num_z = 2

\* C7: the element lines have the ids 1..voxel_count in emission order,
\* the element with id e listing the corners of the voxel with voxel_index
\* e-1; both ElementData blocks declare voxel_count entries and list the
\* pairs (e, doses[e-1]) and (e, uncerts[e-1]) in ascending order; a
\* finished file holds exactly voxel_count lines in each of the three.
C7_ElementsAndFields ==
    format = "gmsh" =>
        /\ \A p \in 1..Len(out) :
              /\ out[p].kind = "Elements" => out[p].id = num_voxels
              /\ out[p].kind = "elt" =>
                    /\ out[p].id = p - EltBase
                    /\ out[p].id \in 1..num_voxels
                    /\ out[p].v[1] = grid_index(VoxelI(out[p].id - 1), VoxelJ(out[p].id - 1),
                                                VoxelK(out[p].id - 1)) + 1
              /\ out[p].kind = "tags" => out[p].id = num_voxels
              /\ out[p].kind = "val" =>
                    IF p <= DoseBase + num_voxels
                    THEN /\ out[p].id = p - DoseBase
                         /\ out[p].id \in 1..num_voxels
                         /\ out[p].v = <<doses[out[p].id]>>
                    ELSE /\ out[p].id = p - UncertBase
                         /\ out[p].id \in 1..num_voxels
                         /\ out[p].v = <<uncerts[out[p].id]>>
        /\ (pc \in {"drop", "done"} /\ pending = "Ok" /\ created) =>
              /\ Len(out) = UncertBase + num_voxels + 1
              /\ \A e \in 1..num_voxels :
                    /\ out[EltBase + e].kind = "elt"
                    /\ out[DoseBase + e].kind = "val"
                    /\ out[UncertBase + e].kind = "val"
              /\ Cardinality({p \in 1..Len(out) : out[p].kind = "elt"}) = num_voxels
              /\ Cardinality({p \in 1..Len(out) : out[p].kind = "val"}) = 2 * num_voxels

\* write_gmsh has returned Ok for a grid of several voxels and unequal axes.
C7_Witness ==
    /\ pc = "done"
    /\ outcome = "Ok"
    /\ format = "gmsh"
    /\ num_x = 2 /\ num_y = 1 /\ num_z = 2

\* C8: write_csv writes the header row and then one row per voxel in
\* voxel_index order, the row at position r carrying the three per-axis
\* means of the bounding coordinates of voxel r, then doses[r] and
\* uncerts[r]; no index is out of range; a finished table has voxel_count
\* rows.
C8_CsvRows ==
    format = "csv" =>
        /\ msg # "index out of bounds"
        /\ \A p \in 1..Len(out) :
              IF p = 1 THEN out[p].kind = "csv_header"
              ELSE LET r == p - 2 IN
                   /\ out[p].kind = "row"
                   /\ r < num_voxels
                   /\ VoxelI(r) + 2 <= Len(xs)
                   /\ VoxelJ(r) + 2 <= Len(ys)
                   /\ VoxelK(r) + 2 <= Len(zs)
                   /\ 2 * out[p].v[1] = xs[VoxelI(r) + 1] + xs[VoxelI(r) + 2]
                   /\ 2 * out[p].v[2] = ys[VoxelJ(r) + 1] + ys[VoxelJ(r) + 2]
                   /\ 2 * out[p].v[3] = zs[VoxelK(r) + 1] + zs[VoxelK(r) + 2]
                   /\ out[p].v[4] = doses[r + 1]
                   /\ out[p].v[5] = uncerts[r + 1]
        /\ (pc \in {"drop", "done"} /\ pending = "Ok" /\ created) =>
              Len(out) = 1 + num_voxels

\* write_csv has returned Ok for a grid of several voxels and unequal axes.
C8_Witness ==
    /\ pc = "done"
    /\ outcome = "Ok"
    /\ format = "csv"
    /\ num_x = 2 /\ num_y = 1 /\ num_z = 2

\* C9: a writer that has returned Ok for a grid with a voxel on every axis
\* has brought every record it serialized to the output file.
C9_WriteFailuresReported ==
    (/\ pc = "done" /\ outcome = "Ok" /\ format # "none"
     /\ num_x >= 1 /\ num_y >= 1 /\ num_z >= 1)
        => flushed = Len(out)

\* The position at which the n-th line is read.
Stage(n) ==
    CASE n = 1 -> "voxel_nums"
      [] n = 2 -> "xs"
      [] n = 3 -> "ys"
      [] n = 4 -> "zs"
      [] n = 5 -> "doses"
      [] OTHER -> "uncerts"

ParseStages == {"open", "voxel_nums", "xs", "ys", "zs", "doses", "uncerts"}

\* C10: the six lines are consumed in the fixed order; the output file is
\* created, and anything written, only after all six have been parsed; a
\* run that fails while parsing has read no later line and has neither
\* created nor written the output file.
C10_ParseBeforeOutput ==
    /\ []((created \/ format # "none" \/ out # <<>>) =>
            (Len(input) = 6 /\ pc \notin ParseStages /\ Len(uncerts) = Len(doses)))
    /\ []((pc = "panicked" /\ format = "none") =>
            /\ ~created /\ out = <<>> /\ flushed = 0
            /\ Len(input) < 2 => xs = <<>>
            /\ Len(input) < 3 => ys = <<>>
            /\ Len(input) < 4 => zs = <<>>
            /\ Len(input) < 5 => doses = <<>>
            /\ uncerts = <<>>)
    /\ [][/\ input' # input =>
               /\ pc = Stage(Len(input) + 1)
               /\ Len(input') = Len(input) + 1
               /\ ~created
          /\ pc = "panicked" => input' = input /\ created' = created /\ out' = out]_vars

\* The output file has just been created for a parsed grid.
C10_Witness ==
    /\ created
    /\ pc = "mesh_format"
    /\ num_voxels > 0
====
